---- MODULE Spec2Model ----
(***************************************************************************)
(* Quota-aware generation request lifecycle of the Nirva bot               *)
(* (src/bot_new.py): the users / generations tables behind DatabaseManager,*)
(* the /imagine command, and the follow-up buttons of AdvancedImageView.   *)
(*                                                                         *)
(* A handler is a coroutine on one event loop: it runs without             *)
(* interruption from one `await` to the next, and other handlers may run   *)
(* while it is suspended in an `await`.  Every action below is one such    *)
(* uninterrupted block.  hf_client.text_to_image is a synchronous call, so *)
(* it belongs to the block that makes it.                                  *)
(***************************************************************************)
EXTENDS Integers, Sequences, FiniteSets, TLC


\* ------------------------------------------------------------ configuration
MAX_IMAGES_PER_USER_FREE == 10
MAX_IMAGES_PER_USER_PREMIUM == 50
MAX_PROMPT_LENGTH == 500
\* the literal 5 of check_cooldown
VIEW_COOLDOWN == 5
\* the timeout AdvancedImageView.__init__ passes to discord.ui.View
VIEW_TIMEOUT == 300

\* ------------------------------------------------------------------ bounds
\* Spec: delivered results (each one a live view) after which the platform
\* delivers no further command or button click
MaxSessions == 2
\* SpecZoom: the same, for one user's chain of zooms
MaxChain == 5
\* SpecFollow: the same, for one user's chain of follow-ups of every kind
MaxFollow == 3
\* SpecView: the results generated, after which the platform delivers only
\* the clicks that generate nothing
MaxViews == 2

\* ----------------------------------------------------------------- strings
\* Python's None (an omitted optional argument)
None == "<None>"

\* `x or y`
Or(x, y) == IF x = None \/ x = "" THEN y ELSE x

RECURSIVE Rep(_, _)
\* c * n
Rep(c, n) ==
    IF n = 0 THEN ""
    ELSE IF n % 2 = 0 THEN LET h == Rep(c, n \div 2) IN h \o h
    ELSE c \o Rep(c, n - 1)

UpperChars == "ABCDEFGHIJKLMNOPQRSTUVWXYZ"
LowerChars == "abcdefghijklmnopqrstuvwxyz"

\* str.lower() of a one-character string
LowerChar(c) ==
    IF \E i \in 1..26 : SubSeq(UpperChars, i, i) = c
    THEN LET i == CHOOSE j \in 1..26 : SubSeq(UpperChars, j, j) = c
         IN SubSeq(LowerChars, i, i)
    ELSE c

RECURSIVE LowerStr(_)
\* str.lower()
LowerStr(s) ==
    IF Len(s) = 0 THEN ""
    ELSE IF Len(s) = 1 THEN LowerChar(s)
    ELSE LET h == Len(s) \div 2
         IN LowerStr(SubSeq(s, 1, h)) \o LowerStr(SubSeq(s, h + 1, Len(s)))

\* `w in s` for strings
Contains(s, w) ==
    \E i \in 1..(Len(s) - Len(w) + 1) : SubSeq(s, i, i + Len(w) - 1) = w

\* ---------------------------------------------------------------- catalogs
AVAILABLE_MODELS ==
    [n \in {"FLUX.1", "FLUX.1-DEV", "SDXL", "SD1.5"} |->
        CASE n = "FLUX.1" -> "black-forest-labs/FLUX.1-schnell"
          [] n = "FLUX.1-DEV" -> "black-forest-labs/FLUX.1-dev"
          [] n = "SDXL" -> "stabilityai/stable-diffusion-xl-base-1.0"
          [] n = "SD1.5" -> "runwayml/stable-diffusion-v1-5"]

STYLE_PRESETS ==
    [n \in {"Photorealistic", "Anime", "Oil Painting", "Cyberpunk", "Fantasy",
            "Minimalist", "Watercolor", "Digital Art"} |->
        CASE n = "Photorealistic" -> "hyperrealistic, photographic, detailed, 8k resolution"
          [] n = "Anime" -> "anime style, manga, cel shading, vibrant colors"
          [] n = "Oil Painting" -> "oil painting, classical art, brush strokes, artistic"
          [] n = "Cyberpunk" -> "cyberpunk, neon lights, futuristic, dark atmosphere"
          [] n = "Fantasy" -> "fantasy art, magical, ethereal, mystical"
          [] n = "Minimalist" -> "minimalist, clean, simple, modern design"
          [] n = "Watercolor" -> "watercolor painting, soft colors, flowing"
          [] n = "Digital Art" -> "digital art, concept art, detailed illustration"]

QUALITY_PRESETS == {"Draft", "Standard", "High", "Ultra"}

variation_modifiers ==
    {"artistic variation", "different perspective", "alternative style",
     "creative interpretation"}

zoom_in_modifiers ==
    {"extreme close-up", "macro shot", "detailed close-up", "zoomed in view"}

zoom_out_modifiers ==
    {"wide shot", "distant view", "pulled back", "zoomed out perspective"}

\* ------------------------------------------------------------ prompt policy
blocked_words == {"nsfw", "explicit"}

\* validate_prompt: the pair (is_valid, error_msg)
validate_prompt(prompt) ==
    IF Len(prompt) > MAX_PROMPT_LENGTH
    THEN [ok |-> FALSE, msg |-> "Prompt too long! Maximum 500 characters."]
    ELSE IF \E word \in blocked_words : Contains(LowerStr(prompt), word)
    THEN [ok |-> FALSE, msg |-> "Prompt contains blocked content."]
    ELSE [ok |-> TRUE, msg |-> ""]

\* an enhance_prompt that knows one quality tier only
enhance_prompt_high_only(prompt, style, quality) ==
    LET e1 == IF style \in DOMAIN STYLE_PRESETS
              THEN prompt \o ", " \o STYLE_PRESETS[style]
              ELSE prompt
    IN IF quality = "High"
       THEN e1 \o ", high quality, detailed, sharp"
       ELSE e1

enhance_prompt(prompt, style, quality) ==
    LET e1 == IF style \in DOMAIN STYLE_PRESETS
              THEN prompt \o ", " \o STYLE_PRESETS[style]
              ELSE prompt
    IN IF quality \in {"High", "Ultra"}
       THEN e1 \o ", high quality, detailed, sharp"
       ELSE e1

\* ------------------------------------------------------------------- store
Users == {"u1", "u2"}

\* no row of the users table has this user_id
NoRow == [absent |-> TRUE]

\* the calendar days the clock runs through: one midnight
Calendar == <<"2024-05-01", "2024-05-02">>

\* str(date) and sqlite3's date adapter: both date.isoformat()
IsoDate(d) == Calendar[d]

\* the row INSERT INTO users (user_id, last_generation_date) creates
NewUserRow(date) ==
    [total_generations |-> 0, daily_generations |-> 0,
     last_generation_date |-> date, preferred_model |-> "FLUX.1",
     preferred_style |-> "Photorealistic", preferred_quality |-> "Standard",
     is_premium |-> FALSE]

\* a get_user_data that resets the daily counter whatever the stored date
get_user_data_resetting(tbl, user_id, day) ==
    LET today_s == IsoDate(day)
        user == IF tbl[user_id] = NoRow THEN NewUserRow(today_s) ELSE tbl[user_id]
        reset == [user EXCEPT !.daily_generations = 0,
                              !.last_generation_date = today_s]
    IN [tbl |-> [tbl EXCEPT ![user_id] = reset], ret |-> reset]

\* a get_user_data whose rollover resets both counters
get_user_data_zeroing_total(tbl, user_id, day) ==
    LET today_s == IsoDate(day)
        tbl1 == IF tbl[user_id] = NoRow
                THEN [tbl EXCEPT ![user_id] = NewUserRow(today_s)]
                ELSE tbl
        user == tbl1[user_id]
    IN IF user.last_generation_date # today_s
       THEN LET reset == [user EXCEPT !.daily_generations = 0,
                                      !.total_generations = 0,
                                      !.last_generation_date = today_s]
            IN [tbl |-> [tbl1 EXCEPT ![user_id] = reset], ret |-> reset]
       ELSE [tbl |-> tbl1, ret |-> user]

\* DatabaseManager.get_user_data: the users table it leaves (tbl) and the
\* dictionary it returns (ret)
get_user_data(tbl, user_id, day) ==
    LET today_s == IsoDate(day)
        tbl1 == IF tbl[user_id] = NoRow
                THEN [tbl EXCEPT ![user_id] = NewUserRow(today_s)]
                ELSE tbl
        user == tbl1[user_id]
    IN IF user.last_generation_date # today_s
       THEN LET reset == [user EXCEPT !.daily_generations = 0,
                                      !.last_generation_date = today_s]
            IN [tbl |-> [tbl1 EXCEPT ![user_id] = reset], ret |-> reset]
       ELSE [tbl |-> tbl1, ret |-> user]

\* the UPDATE of DatabaseManager.update_user_generation (no row: no effect)
CountGeneration(tbl, user_id) ==
    IF tbl[user_id] = NoRow THEN tbl
    ELSE [tbl EXCEPT ![user_id].total_generations = @ + 1,
                     ![user_id].daily_generations = @ + 1]

\* an update_user_preferences that writes all three columns as given
update_user_preferences_overwriting(tbl, user_id, model, style, quality) ==
    IF tbl[user_id] = NoRow THEN tbl
    ELSE [tbl EXCEPT ![user_id].preferred_model = model,
                     ![user_id].preferred_style = style,
                     ![user_id].preferred_quality = quality]

\* DatabaseManager.update_user_preferences: the users table it leaves (the
\* UPDATE names the columns whose argument is truthy; no row: no effect)
update_user_preferences(tbl, user_id, model, style, quality) ==
    IF tbl[user_id] = NoRow THEN tbl
    ELSE [tbl EXCEPT ![user_id].preferred_model = Or(model, @),
                     ![user_id].preferred_style = Or(style, @),
                     ![user_id].preferred_quality = Or(quality, @)]

\* the row DatabaseManager.update_user_generation inserts into generations
\* (generation_time and created_at are wall-clock measurements, left out)
GenerationRow(user_id, prompt, model, style, quality) ==
    [user_id |-> user_id, prompt |-> prompt, model_used |-> model,
     style_used |-> style, quality_used |-> quality]

\* max_images of imagine
MaxImages(user_data) ==
    IF user_data.is_premium THEN MAX_IMAGES_PER_USER_PREMIUM
    ELSE MAX_IMAGES_PER_USER_FREE

\* a quota test that lets the request at the ceiling through
QuotaReachedStrictly(user_data) ==
    user_data.daily_generations > MaxImages(user_data)

\* the quota test of imagine
QuotaReached(user_data) ==
    user_data.daily_generations >= MaxImages(user_data)

\* ---------------------------------------------------------------- sessions
\* a view built with twice the timeout
AdvancedImageViewLongLived(prompt, user_id, model_name, style, quality) ==
    [prompt |-> prompt, user_id |-> user_id, model_name |-> model_name,
     style |-> style, quality |-> quality, zoom_level |-> 1,
     since_interaction |-> 0, timeout |-> 2 * VIEW_TIMEOUT, idle |-> 0]

\* AdvancedImageView.__init__: timeout = 300, zoom_level = 1,
\* last_interaction = time.time().
\* since_interaction is time.time() - last_interaction, the only way the code
\* reads last_interaction; it stops growing at VIEW_COOLDOWN, past which
\* check_cooldown no longer tells two values apart.  idle is the time since
\* discord.ui.View last restarted the timeout (when the message carrying the
\* view is sent, and at each interaction it dispatches to the view), to the
\* resolution of a timeout: the waits of a few seconds are not added up (no
\* behaviour is explored in which they sum to a timeout); it stops growing at
\* the timeout.
AdvancedImageView(prompt, user_id, model_name, style, quality) ==
    [prompt |-> prompt, user_id |-> user_id, model_name |-> model_name,
     style |-> style, quality |-> quality, zoom_level |-> 1,
     since_interaction |-> 0, timeout |-> VIEW_TIMEOUT, idle |-> 0]

\* discord.ui.View still dispatches interactions to the view: its timeout has
\* not run out
Live(view) == view.idle < view.timeout

\* no view has been built by the handler
NoView == [absent |-> TRUE]

\* a new_zoom_level without the floor
NewZoomLevelUnfloored(zoom_level, zoom_in) ==
    IF zoom_in THEN zoom_level + 1 ELSE zoom_level - 1

\* new_zoom_level of generate_zoomed_image
NewZoomLevel(zoom_level, zoom_in) ==
    IF zoom_in THEN zoom_level + 1
    ELSE IF zoom_level - 1 > 1 THEN zoom_level - 1 ELSE 1

\* a cooldown test that lets every click through
CoolingDownNever(view) == view.since_interaction < 0

\* the test of check_cooldown
CoolingDown(view) == view.since_interaction < VIEW_COOLDOWN


\* ------------------------------------------------------------------ inputs
LongPrompt == Rep("a", MAX_PROMPT_LENGTH + 1)

\* the plain invocation: a prompt and no option
PlainRequest ==
    [prompt |-> "a red fox", style |-> None, quality |-> None, model |-> None]

\* the /imagine invocations the chat platform delivers (autocomplete only
\* suggests catalog names: any string may arrive)
ImagineRequests ==
    {PlainRequest,
     [PlainRequest EXCEPT !.prompt = LongPrompt],
     [PlainRequest EXCEPT !.prompt = "NSFW fox"],
     [PlainRequest EXCEPT !.model = "DALL-E"],
     [PlainRequest EXCEPT !.style = "Steampunk", !.quality = "High"],
     [PlainRequest EXCEPT !.style = "Anime", !.quality = "Best"]}

\* who sends which: u1 every request, u2 the plain one
ImagineCommands ==
    {[user |-> "u1", req |-> r] : r \in ImagineRequests} \cup
    {[user |-> "u2", req |-> PlainRequest]}

FollowUps == {"variation", "zoom_in", "zoom_out"}

\* seconds the clock advances in one step
TickSteps == {VIEW_COOLDOWN}

\* ------------------------------------------------------------------- state
VARIABLES
    users_tbl,     \* table users: user_id -> row, or NoRow
    generations,   \* table generations, in insertion order
    sessions,      \* the views attached to delivered messages, in delivery order
    task,          \* the handler coroutines: slot -> locals and position
    today,         \* datetime.now().date(), as an index of Calendar
    chosen         \* history: user -> the model the latest "Model Updated"
                   \* reply to the user names, or None

vars == <<users_tbl, generations, sessions, task, today, chosen>>

\* the handler coroutines that can be suspended at the same time
Tasks == {"t1", "t2"}

\* a slot with no coroutine in it.  pc is the await the coroutine is
\* suspended in; args, user_data, prompt, model_name, style_name,
\* quality_name and new_view are the handler's locals; view is the index of
\* `self` in sessions; hf_model is the model argument of the handler's call
\* of hf_client.text_to_image; trace lists what the handler has done, in
\* order.
\* pre is history: the tables as they were when the handler was invoked.
IdleTask ==
    [pc |-> "idle", kind |-> "none", user |-> None, view |-> 0,
     args |-> PlainRequest, user_data |-> NoRow, prompt |-> "",
     model_name |-> None, style_name |-> None, quality_name |-> None,
     hf_model |-> None, new_view |-> NoView, trace |-> <<>>,
     pre |-> [users |-> <<>>, ngen |-> 0, day |-> 0]]

\* no coroutine is in slot t (a handler that returns leaves its slot)
Finished(t) == task[t].pc = "idle"

\* the slot the next handler invocation runs in
FreeSlot == IF Finished("t1") THEN "t1" ELSE "t2"

\* no handler is suspended in an await
Quiet == \A t \in Tasks : Finished(t)

\* the tables at the invocation of a handler
Snapshot == [users |-> users_tbl, ngen |-> Len(generations), day |-> today]

\* a users table a previous run of the bot left in bot_data.db: u1 has used
\* d of today's units with the plain request; is_premium is set by hand
StoredRow(premium, d) ==
    [NewUserRow(IsoDate(1)) EXCEPT !.total_generations = d,
                                   !.daily_generations = d,
                                   !.is_premium = premium]

StoredGeneration ==
    GenerationRow("u1", enhance_prompt("a red fox", "Photorealistic", "Standard"),
                  "FLUX.1", "Photorealistic", "Standard")

\* the bot starts: no view, no handler; the database file is new or kept
InitWith(rows) ==
    /\ today = 1
    /\ \E row \in rows :
          /\ users_tbl = [u \in Users |-> IF u = "u1" THEN row ELSE NoRow]
          /\ generations = IF row = NoRow THEN <<>>
                           ELSE [i \in 1..row.total_generations |-> StoredGeneration]
    /\ sessions = <<>>
    /\ task = [t \in Tasks |-> IdleTask]
    /\ chosen = [u \in Users |-> None]

Init ==
    InitWith({NoRow} \cup
             {StoredRow(p, MaxImages([is_premium |-> p]) - 1) : p \in BOOLEAN})

\* ----------------------------------------------------------------- actions
\* the events a handler has produced so far, in order
Emit(t, events) == task[t].trace \o events

\* /imagine, lines 451-477: get_user_data, the quota test, validate_prompt,
\* enhance_prompt and the first response, up to its await.  After a quota or
\* validation message the handler only has to return (pc "replying").
ImagineStart(t, user_id, req) ==
    LET got == get_user_data(users_tbl, user_id, today)
        user_data == got.ret
        model_name == Or(req.model, user_data.preferred_model)
        style_name == Or(req.style, user_data.preferred_style)
        quality_name == Or(req.quality, user_data.preferred_quality)
        started == [IdleTask EXCEPT !.kind = "imagine", !.user = user_id,
                                    !.args = req, !.user_data = user_data,
                                    !.model_name = model_name,
                                    !.style_name = style_name,
                                    !.quality_name = quality_name,
                                    !.pre = Snapshot]
    IN /\ Finished(t)
       /\ users_tbl' = got.tbl
       /\ task' = [task EXCEPT ![t] =
              IF QuotaReached(user_data)
              THEN [started EXCEPT !.pc = "replying", !.trace = <<"quota_msg">>]
              ELSE IF ~validate_prompt(req.prompt).ok
              THEN [started EXCEPT !.pc = "replying", !.trace = <<"validation_msg">>]
              ELSE [started EXCEPT
                       !.pc = "acked",
                       !.prompt = enhance_prompt(req.prompt, style_name, quality_name),
                       !.trace = <<"ack">>]]
       /\ UNCHANGED <<generations, sessions, today, chosen>>

\* A click on a button of view v, which discord.ui.View dispatches while the
\* view is live, restarting its timeout: check_cooldown and the deferral of
\* variation_button, zoom_in_button and zoom_out_button (lines 236-248,
\* 284-293, 314)
FollowUpStart(t, user_id, v, kind) ==
    LET started == [IdleTask EXCEPT !.kind = kind, !.user = user_id, !.view = v,
                                    !.pre = Snapshot]
    IN /\ Finished(t)
       /\ v \in 1..Len(sessions)
       /\ Live(sessions[v])
       /\ IF CoolingDown(sessions[v])
          THEN /\ task' = [task EXCEPT ![t] =
                      [started EXCEPT !.pc = "replying", !.trace = <<"cooldown_msg">>]]
               /\ sessions' = [sessions EXCEPT ![v].idle = 0]
          ELSE /\ task' = [task EXCEPT ![t] =
                      [started EXCEPT !.pc = "acked", !.trace = <<"defer">>]]
               /\ sessions' = [sessions EXCEPT ![v].since_interaction = 0,
                                               ![v].idle = 0]
       /\ UNCHANGED <<users_tbl, generations, today, chosen>>

\* the prompt a handler sends to the inference client
DispatchPrompt(t, modifier) ==
    LET self == sessions[task[t].view]
    IN CASE task[t].kind = "imagine" -> task[t].prompt
         [] task[t].kind = "variation" -> self.prompt \o ", " \o modifier
         [] OTHER -> self.prompt \o ", " \o modifier \o ", " \o STYLE_PRESETS[self.style]

\* the modifier lists random.choice draws from
Modifiers(kind) ==
    CASE kind = "variation" -> variation_modifiers
      [] kind = "zoom_in" -> zoom_in_modifiers
      [] kind = "zoom_out" -> zoom_out_modifiers
      [] OTHER -> {""}

\* the model name a handler looks up in AVAILABLE_MODELS
ModelName(t) ==
    IF task[t].kind = "imagine" THEN task[t].model_name
    ELSE sessions[task[t].view].model_name

\* a dictionary lookup of the try block raises KeyError before the call
RaisesKeyError(t) ==
    \/ task[t].kind \in {"zoom_in", "zoom_out"}
       /\ sessions[task[t].view].style \notin DOMAIN STYLE_PRESETS
    \/ ModelName(t) \notin DOMAIN AVAILABLE_MODELS

\* the view the handler builds for its result
BuildView(t, prompt) ==
    LET k == task[t]
        self == sessions[k.view]
    IN CASE k.kind = "imagine" ->
              AdvancedImageView(prompt, k.user, k.model_name, k.style_name,
                                k.quality_name)
         [] k.kind = "variation" ->
              AdvancedImageView(prompt, self.user_id, self.model_name, self.style,
                                self.quality)
         [] OTHER ->
              [AdvancedImageView(prompt, self.user_id, self.model_name, self.style,
                                 self.quality)
                  EXCEPT !.zoom_level =
                      NewZoomLevel(self.zoom_level, k.kind = "zoom_in")]

\* the except clause of a generation handler: logger.error, then the
\* failure notice, up to its await
OnException(t, events) ==
    [task[t] EXCEPT !.pc = "failing",
                    !.trace = Emit(t, events \o <<"log_error", "fail_msg">>)]

\* a handler that charges the user who invoked it
ChargedUserInvoking(t) == task[t].user

\* the user whose counters a handler's update_user_generation call names
ChargedUser(t) ==
    IF task[t].kind = "imagine" THEN task[t].user
    ELSE sessions[task[t].view].user_id

\* the coroutine of slot t after the try block has run up to the await of
\* followup.send: the prompt, the call of hf_client.text_to_image (it
\* returns, or raises), the embed and the view
Dispatched(t, modifier, returns) ==
    IF RaisesKeyError(t) THEN OnException(t, <<"key_error">>)
    ELSE IF ~returns
    THEN [OnException(t, <<"hf_call", "hf_raise">>) EXCEPT
             !.hf_model = AVAILABLE_MODELS[ModelName(t)]]
    ELSE LET prompt == DispatchPrompt(t, modifier)
         IN [task[t] EXCEPT
                !.pc = "sending",
                !.prompt = prompt,
                !.hf_model = AVAILABLE_MODELS[ModelName(t)],
                !.new_view = BuildView(t, prompt),
                !.trace = Emit(t, <<"hf_call", "hf_return", "send_result">>)]

\* a try block that counts the generation before it calls the client
DispatchCountingFirst(t, modifier, returns) ==
    /\ task[t].pc = "acked"
    /\ modifier \in Modifiers(task[t].kind)
    /\ task' = [task EXCEPT ![t] = Dispatched(t, modifier, returns)]
    /\ users_tbl' = CountGeneration(users_tbl, ChargedUser(t))
    /\ UNCHANGED <<generations, sessions, today, chosen>>

\* the try block up to the await of followup.send
\* (imagine 479-517, variation_button 249-275, generate_zoomed_image 316-355)
Dispatch(t, modifier, returns) ==
    /\ task[t].pc = "acked"
    /\ modifier \in Modifiers(task[t].kind)
    /\ task' = [task EXCEPT ![t] = Dispatched(t, modifier, returns)]
    /\ UNCHANGED <<users_tbl, generations, sessions, today, chosen>>

\* an update_user_generation that writes back the counters the handler read
\* at its invocation, plus one
update_user_generation_stale(t) ==
    LET k == task[t]
        v == k.new_view
        u == ChargedUser(t)
        seen == IF k.pre.users[u] = NoRow THEN k.user_data ELSE k.pre.users[u]
    IN /\ users_tbl' = [users_tbl EXCEPT
              ![u].total_generations = seen.total_generations + 1,
              ![u].daily_generations = seen.daily_generations + 1]
       /\ generations' = Append(generations,
              GenerationRow(u, k.prompt, v.model_name, v.style, v.quality))

\* DatabaseManager.update_user_generation as the handler of slot t calls it
update_user_generation(t) ==
    LET k == task[t]
        v == k.new_view
    IN /\ users_tbl' = CountGeneration(users_tbl, ChargedUser(t))
       /\ generations' = Append(generations,
              GenerationRow(ChargedUser(t), k.prompt, v.model_name, v.style,
                            v.quality))

\* followup.send of the result returns: the message and its view are live,
\* the handler records the generation and returns (imagine 517-521,
\* variation_button 275-277, generate_zoomed_image 355-358)
Delivered(t) ==
    /\ task[t].pc = "sending"
    /\ sessions' = Append(sessions, task[t].new_view)
    /\ update_user_generation(t)
    /\ task' = [task EXCEPT ![t] = IdleTask]
    /\ UNCHANGED <<today, chosen>>

\* followup.send of the result raises: the except clause runs
DeliveryFailed(t) ==
    /\ task[t].pc = "sending"
    /\ task' = [task EXCEPT ![t] = OnException(t, <<"send_raise">>)]
    /\ UNCHANGED <<users_tbl, generations, sessions, today, chosen>>

\* the await of the handler's last message (the quota, validation or
\* cooldown message, or the failure notice of the except clause) ends; the
\* handler returns
NoticeSent(t) ==
    /\ task[t].pc \in {"replying", "failing"}
    /\ task' = [task EXCEPT ![t] = IdleTask]
    /\ UNCHANGED <<users_tbl, generations, sessions, today, chosen>>

\* send_dm_button up to its first await: the embed, interaction.user.send.
\* The button has no cooldown test.
SendDmStart(t, user_id, v) ==
    /\ Finished(t)
    /\ v \in 1..Len(sessions)
    /\ Live(sessions[v])
    /\ task' = [task EXCEPT ![t] =
          [IdleTask EXCEPT !.kind = "send_dm", !.user = user_id, !.view = v,
                           !.pre = Snapshot, !.pc = "dm_embed",
                           !.trace = <<"dm_embed">>]]
    /\ sessions' = [sessions EXCEPT ![v].idle = 0]
    /\ UNCHANGED <<users_tbl, generations, today, chosen>>

\* the ways an interaction.user.send of send_dm_button ends
DmOutcomes == {"sent", "forbidden", "error"}

\* a send_dm_button that counts the delivered message as a generation
SendDmStepCounting(t, outcome) ==
    /\ task[t].pc \in {"dm_embed", "dm_text"}
    /\ outcome \in DmOutcomes
    /\ task' = [task EXCEPT ![t] =
          [@ EXCEPT !.pc = "replying", !.trace = Emit(t, <<"dm_sent_msg">>)]]
    /\ users_tbl' = CountGeneration(users_tbl, sessions[task[t].view].user_id)
    /\ UNCHANGED <<generations, sessions, today, chosen>>

\* an await of interaction.user.send ends: the next statement of the try
\* block, or an except clause, runs up to its await
SendDmStep(t, outcome) ==
    /\ task[t].pc \in {"dm_embed", "dm_text"}
    /\ outcome \in DmOutcomes
    /\ task' = [task EXCEPT ![t] =
          CASE outcome = "forbidden" ->
                  [@ EXCEPT !.pc = "replying",
                            !.trace = Emit(t, <<"dm_forbidden", "privacy_msg">>)]
            [] outcome = "error" ->
                  [@ EXCEPT !.pc = "replying",
                            !.trace = Emit(t, <<"dm_raise", "dm_failed_msg">>)]
            [] OTHER ->
                  IF task[t].pc = "dm_embed"
                  THEN [@ EXCEPT !.pc = "dm_text", !.trace = Emit(t, <<"dm_text">>)]
                  ELSE [@ EXCEPT !.pc = "replying",
                                 !.trace = Emit(t, <<"dm_sent_msg">>)]]
    /\ UNCHANGED <<users_tbl, generations, sessions, today, chosen>>

\* /model: the catalog test, update_user_preferences and the reply, up to
\* its await (logger.info follows it)
SetModel(t, user_id, model) ==
    LET started == [IdleTask EXCEPT !.kind = "set_model", !.user = user_id,
                                    !.args = [PlainRequest EXCEPT !.prompt = "",
                                                                  !.model = model],
                                    !.pre = Snapshot, !.pc = "replying"]
    IN /\ Finished(t)
       /\ IF model \notin DOMAIN AVAILABLE_MODELS
          THEN /\ task' = [task EXCEPT ![t] =
                      [started EXCEPT !.trace = <<"invalid_model_msg">>]]
               /\ UNCHANGED <<users_tbl, chosen>>
          ELSE /\ users_tbl' =
                      update_user_preferences(users_tbl, user_id, model, None, None)
               /\ task' = [task EXCEPT ![t] =
                      [started EXCEPT !.trace = <<"model_updated_msg">>]]
               /\ chosen' = [chosen EXCEPT ![user_id] = model]
       /\ UNCHANGED <<generations, sessions, today>>

\* a call of DatabaseManager.update_user_preferences with any arguments
\* (set_model, its one caller, passes the model alone)
UpdatePreferences(t, user_id, req) ==
    /\ Finished(t)
    /\ users_tbl' = update_user_preferences(users_tbl, user_id, req.model,
                                            req.style, req.quality)
    /\ task' = [task EXCEPT ![t] =
          [IdleTask EXCEPT !.kind = "prefs", !.user = user_id, !.args = req,
                           !.pre = Snapshot, !.pc = "called",
                           !.trace = <<"prefs_call">>]]
    /\ UNCHANGED <<generations, sessions, today, chosen>>

\* the caller of update_user_preferences goes on
PreferencesReturn(t) ==
    /\ task[t].pc = "called"
    /\ task' = [task EXCEPT ![t] = IdleTask]
    /\ UNCHANGED <<users_tbl, generations, sessions, today, chosen>>

\* /imagine while the database cannot be used: get_user_data (line 452, before
\* the try block) raises sqlite3.Error, which leaves the coroutine
ImagineStoreError(t, user_id, req) ==
    /\ Finished(t)
    /\ task' = [task EXCEPT ![t] =
          [IdleTask EXCEPT !.kind = "imagine", !.user = user_id, !.args = req,
                           !.pre = Snapshot, !.pc = "unhandled",
                           !.trace = <<"store_raise">>]]
    /\ UNCHANGED <<users_tbl, generations, sessions, today, chosen>>

\* /model with a model of the catalog while the database cannot be used:
\* update_user_preferences (line 550, in no try block) raises
SetModelStoreError(t, user_id, model) ==
    /\ Finished(t)
    /\ model \in DOMAIN AVAILABLE_MODELS
    /\ task' = [task EXCEPT ![t] =
          [IdleTask EXCEPT !.kind = "set_model", !.user = user_id,
                           !.args = [PlainRequest EXCEPT !.prompt = "",
                                                         !.model = model],
                           !.pre = Snapshot, !.pc = "unhandled",
                           !.trace = <<"store_raise">>]]
    /\ UNCHANGED <<users_tbl, generations, sessions, today, chosen>>

\* followup.send of the result returns and update_user_generation raises
\* before its commit: the view is live, the except clause runs
RecordFailed(t) ==
    /\ task[t].pc = "sending"
    /\ sessions' = Append(sessions, task[t].new_view)
    /\ task' = [task EXCEPT ![t] = OnException(t, <<"store_raise">>)]
    /\ UNCHANGED <<users_tbl, generations, today, chosen>>

\* an exception no except clause of the handler caught has left the
\* coroutine: the handler is over, it has sent nothing
Propagated(t) ==
    /\ task[t].pc = "unhandled"
    /\ task' = [task EXCEPT ![t] = IdleTask]
    /\ UNCHANGED <<users_tbl, generations, sessions, today, chosen>>

\* the clocks of a view after d seconds
Age(view, d) ==
    IF view = NoView THEN view
    ELSE [view EXCEPT !.since_interaction =
             IF @ + d > VIEW_COOLDOWN THEN VIEW_COOLDOWN ELSE @ + d]

\* the clocks of a view that is attached to a sent message after d seconds
AgeSent(view, d) ==
    [Age(view, d) EXCEPT !.idle =
        IF d < VIEW_TIMEOUT THEN @
        ELSE IF @ + d > view.timeout THEN view.timeout ELSE @ + d]

\* time.time() advances by d seconds
Tick(d) ==
    /\ sessions' = [i \in 1..Len(sessions) |-> AgeSent(sessions[i], d)]
    /\ task' = [t \in Tasks |-> [task[t] EXCEPT !.new_view = Age(@, d)]]
    /\ UNCHANGED <<users_tbl, generations, today, chosen>>

\* midnight: datetime.now().date() is the next day
NewDay ==
    /\ today < Len(Calendar)
    /\ today' = today + 1
    /\ UNCHANGED <<users_tbl, generations, sessions, task, chosen>>

\* the steps of a handler that has been invoked, and of the clock
Progress ==
    \/ \E t \in Tasks : \E m \in Modifiers(task[t].kind), r \in BOOLEAN :
          Dispatch(t, m, r)
    \/ \E t \in Tasks : Delivered(t)
    \/ \E t \in Tasks : DeliveryFailed(t)
    \/ \E t \in Tasks : NoticeSent(t)
    \/ \E d \in TickSteps : Tick(d)
    \/ NewDay

\* Handlers run one at a time: the platform delivers the next command or
\* click when the handler before it has returned.
Next ==
    \/ \E c \in ImagineCommands :
          /\ Quiet /\ Len(sessions) < MaxSessions
          /\ ImagineStart(FreeSlot, c.user, c.req)
    \/ \E u \in Users, v \in 1..Len(sessions), kind \in FollowUps :
          /\ Quiet /\ Len(sessions) < MaxSessions
          /\ FollowUpStart(FreeSlot, u, v, kind)
    \/ Progress

Spec == Init /\ [][Next]_vars

\* One user's chain of zooms: a new database, one /imagine, then Zoom In and
\* Zoom Out clicks on the newest result; every call and delivery succeeds.
InitZoom == InitWith({NoRow})

NextZoom ==
    \/ /\ Quiet /\ Len(sessions) = 0
       /\ ImagineStart(FreeSlot, "u1", PlainRequest)
    \/ \E kind \in {"zoom_in", "zoom_out"} :
          /\ Quiet /\ Len(sessions) < MaxChain
          /\ FollowUpStart(FreeSlot, "u1", Len(sessions), kind)
    \/ \E t \in Tasks : \E m \in Modifiers(task[t].kind) : Dispatch(t, m, TRUE)
    \/ \E t \in Tasks : Delivered(t)
    \/ \E t \in Tasks : NoticeSent(t)
    \/ \E d \in TickSteps : Tick(d)

SpecZoom == InitZoom /\ [][NextZoom]_vars

\* One user's chain of follow-ups: a new database, one /imagine, then
\* Variation, Zoom In and Zoom Out clicks on the newest result; every call
\* and delivery succeeds.
NextFollow ==
    \/ /\ Quiet /\ Len(sessions) = 0
       /\ ImagineStart(FreeSlot, "u1", PlainRequest)
    \/ \E kind \in FollowUps :
          /\ Quiet /\ Len(sessions) < MaxFollow
          /\ FollowUpStart(FreeSlot, "u1", Len(sessions), kind)
    \/ \E t \in Tasks : \E m \in Modifiers(task[t].kind) : Dispatch(t, m, TRUE)
    \/ \E t \in Tasks : Delivered(t)
    \/ \E t \in Tasks : NoticeSent(t)
    \/ \E d \in TickSteps : Tick(d)

SpecFollow == InitZoom /\ [][NextFollow]_vars

\* seconds the clock advances in one step of SpecView
ViewTickSteps == {VIEW_COOLDOWN - 1, VIEW_COOLDOWN, VIEW_TIMEOUT}

\* The life of a view: a new database, one /imagine of u1, then clicks of
\* either user on every button of every view, after short and long waits.
NextView ==
    \/ /\ Quiet /\ Len(sessions) = 0
       /\ ImagineStart(FreeSlot, "u1", PlainRequest)
    \/ \E u \in Users, v \in 1..Len(sessions), kind \in FollowUps :
          /\ Quiet
          /\ Len(sessions) < MaxViews \/ CoolingDown(sessions[v])
          /\ FollowUpStart(FreeSlot, u, v, kind)
    \/ \E u \in Users, v \in 1..Len(sessions) :
          Quiet /\ SendDmStart(FreeSlot, u, v)
    \/ \E t \in Tasks : \E m \in Modifiers(task[t].kind), r \in BOOLEAN :
          Dispatch(t, m, r)
    \/ \E t \in Tasks : Delivered(t)
    \/ \E t \in Tasks : DeliveryFailed(t)
    \/ \E t \in Tasks, o \in DmOutcomes : SendDmStep(t, o)
    \/ \E t \in Tasks : NoticeSent(t)
    \/ \E d \in ViewTickSteps : Tick(d)

SpecView == InitZoom /\ [][NextView]_vars

\* the models /model is invoked with
ModelChoices == {"SDXL", "SD1.5", "DALL-E"}

\* the arguments update_user_preferences is called with: each given or not
PreferenceArgs ==
    {[prompt |-> "", model |-> m, style |-> st, quality |-> q] :
        m \in {None, "SDXL"}, st \in {None, "Anime"}, q \in {None, "High"}}

\* The preferences: /model commands and update_user_preferences calls of
\* both users, on a new and on a kept database.
NextPrefs ==
    \/ \E u \in Users, m \in ModelChoices : Quiet /\ SetModel(FreeSlot, u, m)
    \/ \E u \in Users, a \in PreferenceArgs :
          Quiet /\ UpdatePreferences(FreeSlot, u, a)
    \/ \E t \in Tasks : NoticeSent(t)
    \/ \E t \in Tasks : PreferencesReturn(t)

SpecPrefs == Init /\ [][NextPrefs]_vars

\* The commands, one at a time, with a database that may fail: /model and
\* /imagine without options of both users, Variations of the results.
NextCommands ==
    \/ \E u \in Users, m \in ModelChoices : Quiet /\ SetModel(FreeSlot, u, m)
    \/ \E u \in Users, m \in ModelChoices :
          Quiet /\ SetModelStoreError(FreeSlot, u, m)
    \/ \E u \in Users :
          /\ Quiet /\ Len(sessions) < MaxSessions
          /\ ImagineStart(FreeSlot, u, PlainRequest)
    \/ \E u \in Users : Quiet /\ ImagineStoreError(FreeSlot, u, PlainRequest)
    \/ \E u \in Users, v \in 1..Len(sessions) :
          /\ Quiet /\ Len(sessions) < MaxSessions
          /\ FollowUpStart(FreeSlot, u, v, "variation")
    \/ \E t \in Tasks, r \in BOOLEAN :
          \E m \in Modifiers(task[t].kind) : Dispatch(t, m, r)
    \/ \E t \in Tasks : Delivered(t)
    \/ \E t \in Tasks : DeliveryFailed(t)
    \/ \E t \in Tasks : RecordFailed(t)
    \/ \E t \in Tasks : NoticeSent(t)
    \/ \E t \in Tasks : Propagated(t)
    \/ \E d \in TickSteps : Quiet /\ Tick(d)

SpecCommands == Init /\ [][NextCommands]_vars

\* /imagine from two devices: a handler is invoked while another one is
\* suspended in an await (the first response, the result's followup.send,
\* the failure notice); the event loop resumes them in any order.
NextConc ==
    \/ \E u \in Users :
          /\ Len(sessions) < MaxSessions
          /\ ImagineStart(FreeSlot, u, PlainRequest)
    \/ \E t \in Tasks, r \in BOOLEAN :
          \E m \in Modifiers(task[t].kind) : Dispatch(t, m, r)
    \/ \E t \in Tasks : Delivered(t)
    \/ \E t \in Tasks : DeliveryFailed(t)
    \/ \E t \in Tasks : NoticeSent(t)

SpecConc == Init /\ [][NextConc]_vars

\* Handlers of every kind interleaved: a new database, /imagine and clicks
\* on Variation and Zoom In of either user while another handler is
\* suspended; every call and delivery succeeds.
NextMix ==
    \/ /\ Len(sessions) < MaxViews
       /\ ImagineStart(FreeSlot, "u1", PlainRequest)
    \/ \E u \in Users, v \in 1..Len(sessions), kind \in {"variation", "zoom_in"} :
          /\ Len(sessions) < MaxViews
          /\ FollowUpStart(FreeSlot, u, v, kind)
    \/ \E t \in Tasks : \E m \in Modifiers(task[t].kind) : Dispatch(t, m, TRUE)
    \/ \E t \in Tasks : Delivered(t)
    \/ \E t \in Tasks : NoticeSent(t)
    \/ \E d \in TickSteps : Tick(d)

SpecMix == InitZoom /\ [][NextMix]_vars

\* the prompts, styles and qualities /imagine is invoked with under
\* SpecEnhance: every style and quality of the catalogs, one outside each,
\* and none; a prompt that already ends like an enhanced one
EnhancePrompts == {"a red fox", "fox", "a castle, high quality, detailed, sharp"}

EnhanceRequests ==
    {[prompt |-> p, style |-> st, quality |-> q, model |-> None] :
        p \in EnhancePrompts,
        st \in DOMAIN STYLE_PRESETS \cup {"Steampunk", None},
        q \in QUALITY_PRESETS \cup {"Best", None}}

\* The enhanced prompt: a new database, one /imagine of u1 at a time with
\* any of the requests, until one result is delivered.
NextEnhance ==
    \/ \E req \in EnhanceRequests :
          /\ Quiet /\ Len(sessions) = 0
          /\ ImagineStart(FreeSlot, "u1", req)
    \/ \E t \in Tasks, r \in BOOLEAN :
          \E m \in Modifiers(task[t].kind) : Dispatch(t, m, r)
    \/ \E t \in Tasks : Delivered(t)
    \/ \E t \in Tasks : DeliveryFailed(t)
    \/ \E t \in Tasks : NoticeSent(t)

SpecEnhance == InitZoom /\ [][NextEnhance]_vars

\* Everything that writes the users table, one handler at a time, over two
\* days: /imagine without options of both users, Variations of the newest
\* result by either user, /model of u1; calls and deliveries that succeed or
\* fail.
NextStore ==
    \/ \E u \in Users :
          /\ Quiet /\ Len(sessions) < MaxSessions
          /\ ImagineStart(FreeSlot, u, PlainRequest)
    \/ \E u \in Users :
          /\ Quiet /\ Len(sessions) \in 1..(MaxSessions - 1)
          /\ FollowUpStart(FreeSlot, u, Len(sessions), "variation")
    \/ \E m \in ModelChoices : Quiet /\ SetModel(FreeSlot, "u1", m)
    \/ \E t \in Tasks, r \in BOOLEAN :
          \E m \in Modifiers(task[t].kind) : Dispatch(t, m, r)
    \/ \E t \in Tasks : Delivered(t)
    \/ \E t \in Tasks : DeliveryFailed(t)
    \/ \E t \in Tasks : NoticeSent(t)
    \/ \E d \in TickSteps : Quiet /\ Tick(d)
    \/ Quiet /\ NewDay

SpecStore == Init /\ [][NextStore]_vars

\* ------------------------------------------------------------------ claims
\* the event e is in the trace
Has(trace, e) == \E i \in 1..Len(trace) : trace[i] = e

\* the tier ceiling of a users row
TierCeiling(row) ==
    IF row.is_premium THEN MAX_IMAGES_PER_USER_PREMIUM ELSE MAX_IMAGES_PER_USER_FREE

\* the row counts for the day `day` and has used the day's units up
AtCeiling(row, day) ==
    /\ row # NoRow
    /\ row.last_generation_date = IsoDate(day)
    /\ row.daily_generations >= TierCeiling(row)

\* the counters of a row; a user without a row has generated nothing
Counters(row) ==
    IF row = NoRow THEN [total |-> 0, daily |-> 0]
    ELSE [total |-> row.total_generations, daily |-> row.daily_generations]

\* this step invokes /imagine in slot t
ImagineInvoked(t) == Finished(t) /\ task'[t].kind = "imagine"

\* this step is the return of the handler in slot t
Returns(t) == ~Finished(t) /\ task'[t].pc = "idle"

\* C1: within one calendar day, whatever /imagine commands and follow-up
\* clicks have been handled, the daily_generations of every user is at most
\* the ceiling of the user's tier.
C1_DailyWithinCeiling ==
    today = 1 =>
        \A u \in Users :
            users_tbl[u] # NoRow =>
                users_tbl[u].daily_generations <= TierCeiling(users_tbl[u])

\* C2: an /imagine of a user whose row, counting for today, holds a
\* daily_generations at or above the tier ceiling is answered with the quota
\* message alone: the handler makes no call of the inference client, and the
\* users table (total_generations, daily_generations) and the generations
\* table are as they were, at the check and until the handler returns.
C2_QuotaCheckBeforeCall ==
    [][\A t \in Tasks :
          /\ (ImagineInvoked(t) /\ AtCeiling(users_tbl[task'[t].user], today)) =>
                /\ task'[t].pc = "replying"
                /\ task'[t].trace = <<"quota_msg">>
                /\ users_tbl' = users_tbl
                /\ generations' = generations
          /\ (task[t].trace = <<"quota_msg">> /\ task'[t] # task[t]) =>
                /\ Returns(t)
                /\ users_tbl' = users_tbl
                /\ generations' = generations]_vars

\* C2 happens: a free user with 10 of 10 used has been sent the quota message
C2_Witness ==
    \E t \in Tasks :
        /\ task[t].kind = "imagine"
        /\ task[t].trace = <<"quota_msg">>
        /\ ~users_tbl[task[t].user].is_premium
        /\ users_tbl[task[t].user].daily_generations = MAX_IMAGES_PER_USER_FREE

\* C3: a Variation, Zoom In or Zoom Out activated when the row of the
\* session's owner, counting for that day, is at or above the tier ceiling
\* makes no call of the inference client and records nothing.
C3_FollowUpChecksQuota ==
    [][\A t \in Tasks :
          (/\ task[t].kind \in FollowUps
           /\ AtCeiling(task[t].pre.users[ChargedUser(t)], task[t].pre.day)) =>
                /\ ~Has(task'[t].trace, "hf_call")
                /\ users_tbl' = users_tbl
                /\ generations' = generations]_vars

\* C4: stated per attempt.  An /imagine whose call of the inference client
\* returned leaves the user's daily_generations one above the value the
\* handler read, and never above the tier ceiling; an /imagine rejected for
\* the quota leaves daily_generations and total_generations as they were.
\* (By induction over N consecutive attempts from 0: min(N, ceiling).)
C4_DailyCountsAttempts ==
    [][\A t \in Tasks :
          (Returns(t) /\ task[t].kind = "imagine") =>
              LET read == task[t].user_data
                  row == users_tbl'[task[t].user]
              IN /\ Has(task[t].trace, "hf_return") =>
                      /\ row.daily_generations = read.daily_generations + 1
                      /\ row.daily_generations <= TierCeiling(row)
                 /\ task[t].trace = <<"quota_msg">> =>
                      /\ row.daily_generations = read.daily_generations
                      /\ row.total_generations = read.total_generations]_vars

\* C5: every get_user_data call (the first statement of /imagine) on a row
\* stored with another date sets daily_generations to 0 and
\* last_generation_date to today and changes nothing else of the row; every
\* call on a row stored with today's date leaves the row as it is, whatever
\* daily_generations has become; no call changes the generations table.
C5_RolloverIdempotent ==
    [][\A t \in Tasks :
          ImagineInvoked(t) =>
              LET old == users_tbl[task'[t].user]
                  new == users_tbl'[task'[t].user]
              IN /\ (old # NoRow /\ old.last_generation_date # IsoDate(today)) =>
                      new = [old EXCEPT !.daily_generations = 0,
                                        !.last_generation_date = IsoDate(today)]
                 /\ (old # NoRow /\ old.last_generation_date = IsoDate(today)) =>
                      new = old
                 /\ generations' = generations]_vars

\* C5 happens: on the second day the row was rolled over by a first call
\* (total 9, daily 0), a generation was recorded (total 10, daily 1), and a
\* further call has returned the row with daily_generations still 1
C5_Witness ==
    \E t \in Tasks :
        /\ task[t].kind = "imagine"
        /\ task[t].pre.day = 2
        /\ task[t].pre.users[task[t].user] = task[t].user_data
        /\ task[t].user_data.last_generation_date = IsoDate(2)
        /\ task[t].user_data.daily_generations = 1
        /\ task[t].user_data.total_generations = MAX_IMAGES_PER_USER_FREE

\* the handler in slot t has records and a total as at its invocation
SameRecordsAndTotal(t) ==
    /\ Len(generations') = task[t].pre.ngen
    /\ \A i \in 1..Len(generations) : generations'[i] = generations[i]
    /\ Counters(users_tbl'[ChargedUser(t)]).total =
          Counters(task[t].pre.users[ChargedUser(t)]).total

\* C6 as amended: when the call of the inference client raised, the handler
\* returns with the generations table and the user's total_generations as at
\* its invocation, and with daily_generations as at its invocation or, for an
\* /imagine that found the row stored with another date, reset to 0 by the
\* rollover: never raised.
C6_FailureNeverCounts ==
    [][\A t \in Tasks :
          (Returns(t) /\ Has(task[t].trace, "hf_raise")) =>
              LET before == task[t].pre.users[ChargedUser(t)]
                  after == users_tbl'[ChargedUser(t)]
              IN /\ SameRecordsAndTotal(t)
                 /\ \/ Counters(after).daily = Counters(before).daily
                    \/ /\ task[t].kind = "imagine"
                       /\ before # NoRow
                       /\ before.last_generation_date # IsoDate(task[t].pre.day)
                       /\ after.daily_generations = 0]_vars

\* C6: when the call of the inference client raised during /imagine,
\* Variation, Zoom In or Zoom Out, the handler returns with the user's
\* total_generations and daily_generations and the generations table the
\* same as at its invocation.
C6_FailureLeavesAllAsBefore ==
    [][\A t \in Tasks :
          (Returns(t) /\ Has(task[t].trace, "hf_raise")) =>
              /\ SameRecordsAndTotal(t)
              /\ Counters(users_tbl'[ChargedUser(t)]).daily =
                    Counters(task[t].pre.users[ChargedUser(t)]).daily]_vars

\* C6 happens: the call raised in an /imagine that had rolled a used row over
C6_Witness ==
    \E t \in Tasks :
        /\ task[t].kind = "imagine"
        /\ task[t].pc = "failing"
        /\ Has(task[t].trace, "hf_raise")
        /\ task[t].pre.users[task[t].user] # NoRow
        /\ task[t].pre.users[task[t].user].daily_generations > 0
        /\ users_tbl[task[t].user].daily_generations = 0

\* the policy allows the user another generation
BelowCeiling(row) ==
    row = NoRow \/ row.daily_generations < TierCeiling(row)

\* C7: a handler whose call of the inference client returned, for a user
\* below the tier ceiling, returns with exactly one row more in the
\* generations table than at its invocation, also when followup.send of the
\* result raised; no step changes or removes a row of the table.
C7_OneRecordPerCall ==
    [][/\ \A i \in 1..Len(generations) :
             i <= Len(generations') /\ generations'[i] = generations[i]
       /\ \A t \in Tasks :
             (/\ Returns(t)
              /\ Has(task[t].trace, "hf_return")
              /\ BelowCeiling(users_tbl[ChargedUser(t)])) =>
                   Len(generations') = task[t].pre.ngen + 1]_vars

\* C8: an /imagine whose prompt validate_prompt rejects is answered with the
\* validation message alone and leaves the users table (no row created, no
\* rollover written, no counter changed) and the generations table as they
\* were, for every user, one without a row included.
C8_InvalidPromptTouchesNothing ==
    [][\A t \in Tasks :
          (ImagineInvoked(t) /\ ~validate_prompt(task'[t].args.prompt).ok) =>
              /\ task'[t].trace = <<"validation_msg">>
              /\ users_tbl' = users_tbl
              /\ generations' = generations]_vars

\* an explicit argument of the request names nothing of its catalog
OutsideCatalog(req) ==
    \/ req.model # None /\ req.model \notin DOMAIN AVAILABLE_MODELS
    \/ req.style # None /\ req.style \notin DOMAIN STYLE_PRESETS
    \/ req.quality # None /\ req.quality \notin QUALITY_PRESETS

\* C9: an /imagine with a valid prompt, from a user below the quota, whose
\* explicit model, style or quality is not in the catalog is answered with a
\* validation message and nothing else: no call of the inference client, no
\* logger.error.
C9_UnknownOptionRejected ==
    \A t \in Tasks :
        (/\ task[t].kind = "imagine"
         /\ OutsideCatalog(task[t].args)
         /\ validate_prompt(task[t].args.prompt).ok
         /\ task[t].trace # <<"quota_msg">>) =>
              task[t].trace = <<"validation_msg">>

\* the zoom levels of the sessions, in delivery order
ZoomLevels == [i \in 1..Len(sessions) |-> sessions[i].zoom_level]

\* C10: a delivered Zoom In on a session at level L adds a session at level
\* L + 1, whatever L; a delivered Zoom Out adds one at level L - 1, or 1 when
\* L is 1; every session's level is an integer of at least 1.
C10_ZoomLevelSteps ==
    [][\A t \in Tasks :
          (Returns(t) /\ task[t].pc = "sending") =>
              LET L == sessions[task[t].view].zoom_level
                  new == sessions'[Len(sessions')].zoom_level
              IN /\ Len(sessions') = Len(sessions) + 1
                 /\ task[t].kind = "zoom_in" => new = L + 1
                 /\ task[t].kind = "zoom_out" => new = IF L = 1 THEN 1 ELSE L - 1
                 /\ \A i \in 1..Len(sessions') :
                       sessions'[i].zoom_level \in Nat \ {0}]_vars

\* C10 happens: three Zoom Ins from level 1 reached 4, a Zoom Out gave 3
C10_Witness == ZoomLevels = <<1, 2, 3, 4, 3>>

\* C11: a delivered Variation on a session at zoom level L adds a session at
\* zoom level L, whatever L.
C11_VariationKeepsZoom ==
    [][\A t \in Tasks :
          (Returns(t) /\ task[t].pc = "sending" /\ task[t].kind = "variation") =>
              /\ Len(sessions') = Len(sessions) + 1
              /\ sessions'[Len(sessions')].zoom_level =
                    sessions[task[t].view].zoom_level]_vars

\* this step invokes the handler of a Variation, Zoom In or Zoom Out click
FollowUpInvoked(t) == Finished(t) /\ task'[t].kind \in FollowUps

\* what the buttons read of view v is as it was
SameView(v) ==
    /\ sessions'[v].prompt = sessions[v].prompt
    /\ sessions'[v].zoom_level = sessions[v].zoom_level
    /\ sessions'[v].since_interaction = sessions[v].since_interaction

\* C12: a Variation, Zoom In or Zoom Out click on a view less than 5 seconds
\* after its last_interaction (the view's creation or the last follow-up
\* accepted on it) is answered with the cooldown notice alone: no call of
\* the inference client, the tables as they were, no new view, and the
\* view's prompt, zoom level and last_interaction as they were.
C12_CooldownRejects ==
    [][\A t \in Tasks :
          /\ (/\ FollowUpInvoked(t)
              /\ sessions[task'[t].view].since_interaction < VIEW_COOLDOWN) =>
                /\ task'[t].pc = "replying"
                /\ task'[t].trace = <<"cooldown_msg">>
                /\ Len(sessions') = Len(sessions)
                /\ SameView(task'[t].view)
                /\ users_tbl' = users_tbl
                /\ generations' = generations
          /\ (task[t].trace = <<"cooldown_msg">> /\ task'[t] # task[t]) =>
                /\ Returns(t)
                /\ sessions' = sessions
                /\ users_tbl' = users_tbl
                /\ generations' = generations]_vars

\* C12 happens: a Variation of view 1 was accepted and delivered as view 2,
\* and a click on view 1 four seconds after it was accepted is rejected
C12_Witness ==
    \E t \in Tasks :
        /\ task[t].kind \in FollowUps
        /\ task[t].trace = <<"cooldown_msg">>
        /\ task[t].view = 1
        /\ Len(sessions) = 2
        /\ sessions[1].since_interaction = VIEW_COOLDOWN - 1

\* C13: a view that has been idle for 300 seconds stays so for ever, and no
\* handler of a click on it is invoked from then on (no call of the
\* inference client, no change of a table, no new view comes of it).
C13_ExpiredIsInert ==
    [][\A v \in 1..Len(sessions) :
          sessions[v].idle >= VIEW_TIMEOUT =>
              /\ sessions'[v].idle >= VIEW_TIMEOUT
              /\ \A t \in Tasks :
                    ~(Finished(t) /\ ~Finished(t)' /\ task'[t].view = v)]_vars

\* C13 happens: the first view has expired while every click on it would
\* otherwise be handled
C13_Witness ==
    /\ Quiet
    /\ Len(sessions) = 1
    /\ sessions[1].idle >= VIEW_TIMEOUT
    /\ Len(sessions) < MaxViews

\* C14: no step of a Send to DM handler, whether the private messages are
\* delivered or not, calls the inference client, changes the users or the
\* generations table, adds a view, or changes a view's prompt or zoom level.
C14_SendDmChangesNothing ==
    [][\A t \in Tasks :
          (/\ task'[t].kind = "send_dm" \/ task[t].kind = "send_dm"
           /\ task'[t] # task[t]) =>
              /\ ~Has(task'[t].trace, "hf_call")
              /\ users_tbl' = users_tbl
              /\ generations' = generations
              /\ Len(sessions') = Len(sessions)
              /\ \A v \in 1..Len(sessions) : SameView(v)]_vars

\* C14 happens: the first private message was delivered, the second was not
C14_Witness ==
    \E t \in Tasks :
        /\ task[t].kind = "send_dm"
        /\ task[t].trace = <<"dm_embed", "dm_text", "dm_forbidden", "privacy_msg">>
        /\ Len(generations) > 0

\* the argument is given (truthy)
Specified(x) == x # None /\ x # ""

\* C15: update_user_preferences, called by /model or with any arguments,
\* writes into the row of a user who has one exactly the preferences that are
\* given and leaves the other preferences, both counters,
\* last_generation_date and is_premium as they were; it touches no other
\* user's row and not the generations table; a /model naming no model of the
\* catalog leaves both tables as they were.
C15_PreferencesPartial ==
    [][\A t \in Tasks :
          (Finished(t) /\ task'[t].kind \in {"set_model", "prefs"}) =>
              LET a == task'[t].args
                  old == users_tbl[task'[t].user]
                  new == users_tbl'[task'[t].user]
              IN /\ generations' = generations
                 /\ \A w \in Users \ {task'[t].user} : users_tbl'[w] = users_tbl[w]
                 /\ (/\ task'[t].kind = "set_model"
                     /\ a.model \notin DOMAIN AVAILABLE_MODELS) => new = old
                 /\ (/\ old # NoRow
                     /\ task'[t].kind = "set_model" => a.model \in DOMAIN AVAILABLE_MODELS) =>
                       new = [old EXCEPT
                                 !.preferred_model =
                                     IF Specified(a.model) THEN a.model ELSE @,
                                 !.preferred_style =
                                     IF Specified(a.style) THEN a.style ELSE @,
                                 !.preferred_quality =
                                     IF Specified(a.quality) THEN a.quality ELSE @]]_vars

\* C15 happens: a call giving the style alone has changed the style of a row
\* whose model an earlier /model had set, and nothing else of it
C15_Witness ==
    \E t \in Tasks :
        /\ task[t].kind = "prefs"
        /\ task[t].args.style = "Anime" /\ task[t].args.model = None
        /\ task[t].args.quality = None
        /\ users_tbl[task[t].user] =
              [StoredRow(FALSE, MAX_IMAGES_PER_USER_FREE - 1) EXCEPT
                  !.preferred_model = "SD1.5", !.preferred_style = "Anime"]

\* C16: whenever a /imagine without a model argument has called the
\* inference client, and a "Model Updated" reply has named a model M to its
\* user before, the call was made with the identifier of the M of the latest
\* such reply; also for a user who had no row when /model was invoked.
C16_LatestChoiceDispatched ==
    \A t \in Tasks :
        (/\ task[t].kind = "imagine"
         /\ task[t].args.model = None
         /\ chosen[task[t].user] # None
         /\ Has(task[t].trace, "hf_call")) =>
            task[t].hf_model = AVAILABLE_MODELS[chosen[task[t].user]]

\* C19: a handler in which a call of the database has raised does not let
\* the exception leave the coroutine, sends the failure notice and has not
\* called the inference client after the exception.
C19_StoreFailureContained ==
    \A t \in Tasks :
        Has(task[t].trace, "store_raise") =>
            /\ task[t].pc # "unhandled"
            /\ Has(task[t].trace, "fail_msg")
            /\ \A i, j \in 1..Len(task[t].trace) :
                  (task[t].trace[i] = "store_raise" /\ task[t].trace[j] = "hf_call")
                      => j < i

\* the /imagine handler in slot t has passed the quota test on a read of
\* the user's row that left it one unit
AdmittedOnLastUnit(t) ==
    /\ task[t].kind = "imagine"
    /\ Has(task[t].trace, "ack")
    /\ task[t].user_data.daily_generations = MaxImages(task[t].user_data) - 1

\* C17: when /imagine handlers of one user interleave at their awaits, no
\* two of them that were admitted on the user's last unit of the day both
\* call the inference client, and the user's daily_generations stays at or
\* below the ceiling of the tier.
C17_LastUnitOnce ==
    /\ \A t1, t2 \in Tasks :
          (/\ t1 # t2
           /\ task[t1].user = task[t2].user
           /\ AdmittedOnLastUnit(t1) /\ AdmittedOnLastUnit(t2)) =>
              ~(Has(task[t1].trace, "hf_call") /\ Has(task[t2].trace, "hf_call"))
    /\ \A u \in Users :
          users_tbl[u] # NoRow =>
              users_tbl[u].daily_generations <= MaxImages(users_tbl[u])

\* the records of user u among the generations appended by this step
AppendedFor(u) ==
    {i \in (Len(generations) + 1)..Len(generations') : generations'[i].user_id = u}

\* C18: however handlers interleave, every step that records generations
\* appends exactly one record, keeps the records before it, and raises the
\* total_generations and daily_generations of that record's user by exactly
\* one over their values just before the step; a step that appends no
\* record leaves the total_generations of every row as it was. So k recorded
\* handlers of one user raise the total by k and append k records.
C18_IncrementsAtomic ==
    [][/\ Len(generations') >= Len(generations)
       /\ SubSeq(generations', 1, Len(generations)) = generations
       /\ Len(generations') <= Len(generations) + 1
       /\ \A u \in Users :
             LET k == Cardinality(AppendedFor(u))
                 old == users_tbl[u]
                 new == users_tbl'[u]
             IN /\ k = 1 => /\ old # NoRow /\ new # NoRow
                            /\ new.total_generations = old.total_generations + 1
                            /\ new.daily_generations = old.daily_generations + 1
                /\ (k = 0 /\ old # NoRow) =>
                      /\ new # NoRow
                      /\ new.total_generations = old.total_generations
                /\ (k = 0 /\ old = NoRow /\ new # NoRow) =>
                      new.total_generations = 0]_vars

\* C18 happens: a handler waiting for its result to be delivered was invoked
\* before another handler recorded a generation of the same user, whose
\* total_generations is one more than at the invocation
C18_Witness ==
    \E t \in Tasks :
        LET u == ChargedUser(t)
        IN /\ task[t].pc = "sending"
           /\ task[t].kind \in FollowUps
           /\ Len(generations) = task[t].pre.ngen + 1
           /\ generations[Len(generations)].user_id = u
           /\ task[t].pre.users[u] # NoRow
           /\ users_tbl[u].total_generations =
                 task[t].pre.users[u].total_generations + 1

\* the characters of s from position i on
From(s, i) == SubSeq(s, i, Len(s))

\* C20: the prompt /imagine has enhanced is the raw prompt, then ", " and
\* the descriptor of the style when the style is in STYLE_PRESETS, then
\* ", high quality, detailed, sharp" exactly when the quality is High or
\* Ultra, and nothing else; for ("a red fox", Anime, Standard) it is
\* "a red fox, anime style, manga, cel shading, vibrant colors".
C20_EnhancedPromptShape ==
    \A t \in Tasks :
        (task[t].kind = "imagine" /\ task[t].pc = "acked") =>
            LET raw == task[t].args.prompt
                e == task[t].prompt
                styled == task[t].style_name \in DOMAIN STYLE_PRESETS
                sharp == task[t].quality_name \in {"High", "Ultra"}
                descriptor == IF styled THEN ", " \o STYLE_PRESETS[task[t].style_name]
                              ELSE ""
                suffix == IF sharp THEN ", high quality, detailed, sharp" ELSE ""
            IN /\ Len(e) = Len(raw) + Len(descriptor) + Len(suffix)
               /\ SubSeq(e, 1, Len(raw)) = raw
               /\ SubSeq(e, Len(raw) + 1, Len(raw) + Len(descriptor)) = descriptor
               /\ From(e, Len(raw) + Len(descriptor) + 1) = suffix
               /\ (/\ raw = "a red fox" /\ task[t].style_name = "Anime"
                   /\ task[t].quality_name = "Standard") =>
                     e = "a red fox, anime style, manga, cel shading, vibrant colors"

\* C20 happens: /imagine has enhanced a prompt with a style of the catalog
\* and the quality Ultra
C20_Witness ==
    \E t \in Tasks :
        /\ task[t].kind = "imagine" /\ task[t].pc = "acked"
        /\ task[t].args.prompt = "a red fox"
        /\ task[t].args.style = "Anime" /\ task[t].args.quality = "Ultra"
        /\ task[t].prompt = "a red fox, anime style, manga, cel shading, "
                               \o "vibrant colors, high quality, detailed, sharp"

\* the positions of event e in the trace of slot t
Positions(t, e) == {i \in 1..Len(task[t].trace) : task[t].trace[i] = e}

\* C21: a generation handler (/imagine, Variation, Zoom) that has
\* acknowledged its invocation sends the acknowledgment first; it calls the
\* inference client at most once, after the acknowledgment; and when it
\* sends the result or the failure notice, it has made exactly one call and
\* that call has returned or raised before.
C21_EventOrder ==
    \A t \in Tasks :
        (/\ task[t].kind \in {"imagine"} \cup FollowUps
         /\ (Has(task[t].trace, "ack") \/ Has(task[t].trace, "defer"))) =>
            /\ task[t].trace[1] \in {"ack", "defer"}
            /\ Cardinality(Positions(t, "hf_call")) <= 1
            /\ \A j \in Positions(t, "send_result") \cup Positions(t, "fail_msg") :
                  /\ Cardinality(Positions(t, "hf_call")) = 1
                  /\ \E i \in Positions(t, "hf_return") \cup Positions(t, "hf_raise") :
                        /\ i < j
                        /\ \E c \in Positions(t, "hf_call") : c < i

\* the prompt a follow-up of this kind derives from an original prompt with
\* one modifier m
DerivedOnce(kind, original, m, style) ==
    IF kind = "variation" THEN original \o ", " \o m
    ELSE original \o ", " \o m \o ", " \o STYLE_PRESETS[style]

\* C22: in a chain of follow-ups on the result of one /imagine (the first
\* session), the prompt every follow-up has sent to the inference client is
\* the prompt of that /imagine, ", ", one modifier of the follow-up's list
\* and, for a zoom, ", " and the style descriptor: it holds one modifier.
C22_OneModifier ==
    \A t \in Tasks :
        (task[t].kind \in FollowUps /\ task[t].pc = "sending") =>
            \E m \in Modifiers(task[t].kind) :
                task[t].prompt =
                    DerivedOnce(task[t].kind, sessions[1].prompt, m,
                                sessions[1].style)

\* C23: when the result of a follow-up is delivered, the new session has the
\* user_id, model, style and quality of the session whose button was
\* clicked; the record appended names that session's user, both counters of
\* that user go up by one and the row of every other user, the clicking
\* user's included, stays as it was. The session and the record of a
\* delivered /imagine name the invoking user. So every session of a chain
\* names the user whose /imagine started it, and that user is charged.
C23_OwnerCharged ==
    [][\A t \in Tasks :
          (Returns(t) /\ task[t].pc = "sending") =>
              /\ Len(sessions') = Len(sessions) + 1
              /\ Len(generations') = Len(generations) + 1
              /\ LET new == sessions'[Len(sessions')]
                     rec == generations'[Len(generations')]
                 IN IF task[t].kind = "imagine"
                    THEN new.user_id = task[t].user /\ rec.user_id = task[t].user
                    ELSE LET parent == sessions[task[t].view]
                             owner == parent.user_id
                         IN /\ new.user_id = owner
                            /\ new.model_name = parent.model_name
                            /\ new.style = parent.style
                            /\ new.quality = parent.quality
                            /\ rec.user_id = owner
                            /\ users_tbl[owner] # NoRow
                            /\ users_tbl'[owner].total_generations =
                                  users_tbl[owner].total_generations + 1
                            /\ users_tbl'[owner].daily_generations =
                                  users_tbl[owner].daily_generations + 1
                            /\ \A w \in Users \ {owner} :
                                  users_tbl'[w] = users_tbl[w]]_vars

\* C23 happens: u2, who has no row, has clicked a button on a session of
\* u1 and the result is about to be delivered, after an earlier follow-up
\* on u1's session was delivered and charged to u1
C23_Witness ==
    \E t \in Tasks :
        /\ task[t].pc = "sending" /\ task[t].kind \in FollowUps
        /\ task[t].user = "u2"
        /\ sessions[task[t].view].user_id = "u1"
        /\ users_tbl["u2"] = NoRow
        /\ Len(sessions) = 2
        /\ sessions[2].user_id = "u1"
        /\ users_tbl["u1"].total_generations = 2

\* the number of rows of generations whose user_id is u
RecordsOf(gens, u) == Cardinality({i \in 1..Len(gens) : gens[i].user_id = u})

\* total_generations of every row is the number of the user's records, and
\* a user without a row has none
TotalsMatch(tbl, gens) ==
    \A u \in Users :
        IF tbl[u] = NoRow THEN RecordsOf(gens, u) = 0
        ELSE tbl[u].total_generations = RecordsOf(gens, u)

\* C24: in every reachable state the total_generations of every user is the
\* number of rows of generations with the user's id, and no step (a
\* rollover at the first access of a new day and /model included) lowers a
\* total_generations or removes a row.
C24_TotalIsRecordCount ==
    /\ TotalsMatch(users_tbl, generations)
    /\ [][/\ TotalsMatch(users_tbl', generations')
          /\ \A u \in Users :
                users_tbl[u] # NoRow =>
                    /\ users_tbl'[u] # NoRow
                    /\ users_tbl'[u].total_generations >=
                          users_tbl[u].total_generations]_vars

\* C24 happens: on the second day u1, who had 9 generations on the first
\* day and has chosen SDXL since, has had the daily counter reset and one
\* more generation recorded
C24_Witness ==
    /\ today = 2
    /\ users_tbl["u1"] # NoRow
    /\ users_tbl["u1"].last_generation_date = IsoDate(2)
    /\ users_tbl["u1"].preferred_model = "SDXL"
    /\ users_tbl["u1"].daily_generations = 1
    /\ users_tbl["u1"].total_generations = MAX_IMAGES_PER_USER_FREE
    /\ RecordsOf(generations, "u1") = MAX_IMAGES_PER_USER_FREE

====
